---- MODULE Spec2Model ----
(***************************************************************************)
(* Model of epitaph's dispatch state (src/src/main.rs): the touch handler, *)
(* the drawer animation timer, the frame, layer and seat handlers and the  *)
(* main loop; and of the brightness slider (src/src/module/brightness.rs). *)
(* Positions and offsets are f64 in the source; the model keeps them on an *)
(* integer grid and compares against the thresholds by cross               *)
(* multiplication (y * 100 >= max_offset * 95), which agrees with the f64  *)
(* comparison for integer positions.                                       *)
(*                                                                         *)
(* The Drawer and Panel windows (drawer.rs, panel.rs) are modelled from    *)
(* the written specification: show, hide and owns_surface follow the       *)
(* Window's mapped flag, the sole gate of GPU attach/detach.  The          *)
(* Drawer's logical height (max_offset) is fixed during a run.  Pending    *)
(* timers may tick in any order.                                           *)
(***************************************************************************)
EXTENDS Integers, Sequences, FiniteSets, Bags, TLC

\* ---------------------------------------------------------------- bounds
\* Backlight devices udev enumerates.
MaxDevices == 2
\* Seats the compositor advertises: 1..MaxSeats.
MaxSeats == 2
\* The Drawer's logical height (max_offset); fixed during a run.
MaxOffset == 80
\* Touch ids the compositor hands out: 1..MaxTouchId.
MaxTouchId == 2
\* Pending animate_drawer timers the model lets pile up.
MaxTimers == 2

\* ------------------------------------------------------------- constants
\* main.rs:63  const ANIMATION_STEP: f64 = 20.
ANIMATION_STEP == 20
\* main.rs:60  const ANIMATION_THRESHOLD: f64 = 0.25 (kept in percent)
ANIMATION_THRESHOLD == 25
\* main.rs:66  const DRAWER_CLOSE_PERCENTAGE: f64 = 0.95 (kept in percent)
DRAWER_CLOSE_PERCENTAGE == 95

\* main.rs:53  const FRAME_INTERVAL = 60 s (kept in minutes)
FRAME_INTERVAL == 1

\* Option<i32> of active_touch: None is the empty set, Some(id) is {id}.
None == {}

Some(id) == { id }

\* Brightness 1.0; brightness values are kept in quarters, which f64
\* represents exactly.
FULL == 4

\* Slider values handed to set_value: below, at the ends of, inside and above
\* [0, 1].
SliderValues == { 0 - 1, 0, FULL \div 2, FULL, FULL + 1 }

\* The max_brightness attribute of a backlight device: not parsable as u32
\* (None), or a value.
DeviceMaxes == { None, Some(1), Some(5) }

TouchIds == 1..MaxTouchId

Seats == 1..MaxSeats

\* smithay_client_toolkit::seat::Capability
Capabilities == { "Keyboard", "Pointer", "Touch" }

\* Touch positions (y) the model delivers: the edges, the snap thresholds
\* and values that are not a multiple of the animation step.
TouchYs ==
    { 0, MaxOffset \div 8, MaxOffset \div 4, MaxOffset \div 2,
      (3 * MaxOffset) \div 4, MaxOffset }

Surfaces == { "panel", "drawer", "other" }

\* ceil(max_offset / step)
CeilTicks == (MaxOffset + ANIMATION_STEP - 1) \div ANIMATION_STEP

VARIABLES
    active_touch,    \* State.active_touch: None or Some(tracked touch id)
    drawer_opening,  \* State.drawer_opening
    drawer_offset,   \* State.drawer_offset
    terminated,      \* State.terminated
    mapped,          \* the Drawer window is mapped (has its GPU context)
    gpu,             \* the last two GPU context operations on the Drawer
    timers,          \* bag of pending animate_drawer timers
    pc,              \* position of main's loop
    calls,           \* the calls made by the handler that ran last
    counting,        \* whether the timers carry their tick counts
    until_next_frame,\* main's next_frame, as the time left until it
    touch,           \* State.touch: None or Some(seat the WlTouch is of)
    seat_caps,       \* the capabilities each seat currently has
    live_handles,    \* WlTouch handles acquired and not released
    brightness,      \* Brightness.brightness, in quarters
    devices,         \* the backlight devices: max_brightness and brightness
    last_set         \* the last Slider::set_value call: value and result

\* State.touch and what the seat handlers act on.
seat_vars == << touch, seat_caps, live_handles >>

\* The Brightness module and the backlight devices.
slider_vars == << brightness, devices, last_set >>

\* State that no handler of main.rs other than the seat handlers acts on.
other_vars == << counting, seat_vars, slider_vars >>

\* The fields of State the touch, frame and layer handlers and the main loop
\* act on.
main_vars ==
    << active_touch, drawer_opening, drawer_offset, terminated, mapped, gpu,
       timers, pc, calls, until_next_frame >>

vars ==
    << active_touch, drawer_opening, drawer_offset, terminated, mapped, gpu,
       timers, pc, calls, counting, until_next_frame, seat_vars, slider_vars >>

\* A handler run that calls nothing.  draws/ok: Panel::draw or Drawer::draw
\* and its result; shows/hides: Drawer::show (ok: its result) and
\* Drawer::hide; gpu_ops: GPU context attach/detach operations they led to;
\* drawer_frames/panel_frames: request_frame; closed: the layer surface a
\* closed event named.
NoCalls ==
    [ draws |-> 0, ok |-> TRUE, shows |-> 0, hides |-> 0, gpu_ops |-> 0,
      drawer_frames |-> 0, panel_frames |-> 0, closed |-> "none" ]

\* State::new: every field Default::default(); the Drawer is not shown yet
\* and no timer is registered.
StateNew ==
    /\ active_touch = None
    /\ drawer_opening = FALSE
    /\ drawer_offset = 0
    /\ terminated = FALSE
    /\ mapped = FALSE
    /\ gpu = [ prev |-> "none", last |-> "none" ]
    /\ timers = EmptyBag
    /\ pc = "check"
    /\ calls = NoCalls
    /\ until_next_frame = FRAME_INTERVAL
    /\ touch = None
    /\ seat_caps = [ seat \in Seats |-> {} ]
    /\ live_handles = 0

\* The value of the Option max (a singleton).
Unwrap(max) == CHOOSE m \in max : TRUE

\* Brightness::get_brightness: actual over max of the first device that has
\* both attributes, 1.0 without such a device.  (The quotient is exact for
\* the devices of BrightnessNew, which start at their max_brightness.)
get_brightness(devs) ==
    LET with_max == { d \in DOMAIN devs : devs[d].max # None }
    IN  IF with_max = {} THEN FULL
        ELSE LET first == CHOOSE d \in with_max : \A e \in with_max : d <= e
             IN  (devs[first].value * FULL) \div Unwrap(devs[first].max)

\* Brightness::new over the backlight devices devs; no set_value call yet.
BrightnessNew(devs) ==
    /\ devices = devs
    /\ brightness = get_brightness(devs)
    /\ last_set = [ value |-> FULL, result |-> "none" ]

\* Backlight devices at full brightness, one for each max_brightness.
DeviceOf(max) ==
    [ max |-> max, value |-> IF max = None THEN 0 ELSE Unwrap(max) ]

Init ==
    /\ StateNew
    /\ counting = FALSE
    /\ BrightnessNew([ d \in 1..MaxDevices |-> DeviceOf(None) ])

InitTicks ==
    /\ StateNew
    /\ counting = TRUE
    /\ BrightnessNew([ d \in 1..MaxDevices |-> DeviceOf(None) ])

\* The drawer's brightness slider over any set of backlight devices.
InitBrightness ==
    /\ StateNew
    /\ counting = FALSE
    /\ \E maxes \in [ 1..MaxDevices -> DeviceMaxes ] :
           BrightnessNew([ d \in 1..MaxDevices |-> DeviceOf(maxes[d]) ])

\* ------------------------------------------------------- Drawer / Panel
\* Panel::owns_surface: the Panel is mapped from creation on.
PanelOwnsSurface(surface) == surface = "panel"

\* Drawer::owns_surface: the Drawer has a surface only while mapped.
DrawerOwnsSurface(surface) == mapped /\ surface = "drawer"

\* Drawer::max_offset: the Drawer's logical height.
max_offset == MaxOffset

\* Show without the mapped gate: attaches on every successful call.
Show_ungated(ok) ==
    IF ok
    THEN /\ mapped' = TRUE
         /\ gpu' = [ prev |-> gpu.last, last |-> "attach" ]
    ELSE UNCHANGED << mapped, gpu >>

\* Drawer::show: maps the window and attaches its GPU context, gated by the
\* mapped flag; a failing show leaves the Drawer unmapped.
Show(ok) ==
    IF ~mapped /\ ok
    THEN /\ mapped' = TRUE
         /\ gpu' = [ prev |-> gpu.last, last |-> "attach" ]
    ELSE UNCHANGED << mapped, gpu >>

\* Drawer::hide: unmaps the window and detaches its GPU context; idempotent.
Hide ==
    IF mapped
    THEN /\ mapped' = FALSE
         /\ gpu' = [ prev |-> gpu.last, last |-> "detach" ]
    ELSE UNCHANGED << mapped, gpu >>

\* ---------------------------------------------------------- TouchHandler
\* TouchHandler::down; show_ok is the outcome of Drawer::show.
down(surface, id, y, show_ok) ==
    /\ pc = "dispatch"
    /\ IF active_touch = None /\ PanelOwnsSurface(surface)
       THEN /\ Show(show_ok)
            /\ drawer_offset' = y
            /\ active_touch' = Some(id)
            /\ drawer_opening' = TRUE
            /\ calls' = [ NoCalls EXCEPT !.shows = 1,
                                         !.ok = (mapped \/ show_ok),
                                         !.gpu_ops = IF gpu' # gpu THEN 1 ELSE 0 ]
       ELSE IF DrawerOwnsSurface(surface)
               /\ y * 100 >= max_offset * DRAWER_CLOSE_PERCENTAGE
       THEN /\ drawer_offset' = y
            /\ active_touch' = Some(id)
            /\ drawer_opening' = FALSE
            /\ calls' = NoCalls
            /\ UNCHANGED << mapped, gpu >>
       ELSE /\ calls' = NoCalls
            /\ UNCHANGED << drawer_offset, active_touch, drawer_opening,
                            mapped, gpu >>
    /\ UNCHANGED << terminated, timers, pc, until_next_frame,
                    other_vars >>

\* The threshold test of animate_drawer: TRUE when the offset moves up.
MovesUp(offset, opening) ==
    IF opening
    THEN offset * 100 >= max_offset * ANIMATION_THRESHOLD
    ELSE offset * 100 >= max_offset * 100 - max_offset * ANIMATION_THRESHOLD

\* The end the snap property expects of an animation started now.
SnapOf ==
    IF drawer_opening /\ drawer_offset * 4 >= 3 * max_offset THEN "open"
    ELSE IF ~drawer_opening /\ drawer_offset * 4 <= max_offset THEN "closed"
    ELSE "none"

\* A freshly inserted animate_drawer timer, with what is known at its start:
\* no tick yet, and either (when counting ticks) whether it starts from an
\* offset in [0, max_offset] and the result of the threshold test at the
\* start, or the end the snap property expects.
NewTimer ==
    [ ticks  |-> 0,
      clean  |-> (counting /\ 0 <= drawer_offset /\ drawer_offset <= max_offset),
      snap   |-> IF counting THEN "none" ELSE SnapOf,
      rising |-> (counting /\ MovesUp(drawer_offset, drawer_opening)) ]

\* up that clears the session but starts no animation.
up_without_timer(id) ==
    /\ pc = "dispatch"
    /\ IF active_touch = Some(id)
       THEN active_touch' = None
       ELSE UNCHANGED active_touch
    /\ calls' = NoCalls
    /\ UNCHANGED << drawer_opening, drawer_offset, terminated, mapped, gpu, pc,
                    timers, until_next_frame,
                    other_vars >>

\* up that ends the session whichever touch lifts.
up_any_id(id) ==
    /\ pc = "dispatch"
    /\ IF active_touch # None
       THEN /\ BagCardinality(timers) < MaxTimers
            /\ active_touch' = None
            /\ timers' = timers (+) SetToBag({ NewTimer })
       ELSE UNCHANGED << active_touch, timers >>
    /\ calls' = NoCalls
    /\ UNCHANGED << drawer_opening, drawer_offset, terminated, mapped, gpu, pc,
                    until_next_frame, other_vars >>

\* TouchHandler::up
up(id) ==
    /\ pc = "dispatch"
    /\ IF active_touch = Some(id)
       THEN /\ BagCardinality(timers) < MaxTimers
            /\ active_touch' = None
            /\ timers' = timers (+) SetToBag({ NewTimer })
       ELSE UNCHANGED << active_touch, timers >>
    /\ calls' = NoCalls
    /\ UNCHANGED << drawer_opening, drawer_offset, terminated, mapped, gpu, pc,
                    until_next_frame,
                    other_vars >>

\* A touch-move changed the offset: the tick count of a pending animation
\* no longer counts ticks "with no touch-move in between".
Dirty(t) == [ t EXCEPT !.clean = FALSE, !.ticks = 0 ]

DirtyAll(bag) ==
    LET RECURSIVE Go(_, _)
        Go(rest, acc) ==
            IF rest = {} THEN acc
            ELSE LET t == CHOOSE x \in rest : TRUE
                     add == [ e \in { Dirty(t) } |-> CopiesIn(t, bag) ]
                 IN  Go(rest \ { t }, acc (+) add)
    IN  Go(BagToSet(bag), EmptyBag)

\* motion that stores the position but requests no frame.
motion_no_frame(id, y) ==
    /\ pc = "dispatch"
    /\ IF active_touch = Some(id)
       THEN /\ drawer_offset' = y
            /\ timers' = DirtyAll(timers)
       ELSE UNCHANGED << drawer_offset, timers >>
    /\ calls' = NoCalls
    /\ UNCHANGED << active_touch, drawer_opening, terminated, mapped, gpu, pc,
                    until_next_frame, other_vars >>

\* TouchHandler::motion
motion(id, y) ==
    /\ pc = "dispatch"
    /\ IF active_touch = Some(id)
       THEN /\ drawer_offset' = y
            /\ timers' = DirtyAll(timers)
            /\ calls' = [ NoCalls EXCEPT !.drawer_frames = 1 ]
       ELSE /\ calls' = NoCalls
            /\ UNCHANGED << drawer_offset, timers >>
    /\ UNCHANGED << active_touch, drawer_opening, terminated, mapped, gpu, pc,
                    until_next_frame,
                    other_vars >>

\* TouchHandler::cancel
cancel ==
    /\ pc = "dispatch"
    /\ calls' = NoCalls
    /\ UNCHANGED << active_touch, drawer_opening, drawer_offset, terminated,
                    mapped, gpu, timers, pc, until_next_frame,
                    other_vars >>

\* ------------------------------------------------------- animation timer
\* The offset after one tick's update.
Stepped(offset, opening) ==
    IF MovesUp(offset, opening)
    THEN offset + ANIMATION_STEP
    ELSE offset - ANIMATION_STEP

\* A timer that ticked and was rescheduled (TimeoutAction::ToInstant).
Ticked(t) ==
    IF t.clean /\ t.ticks < CeilTicks
    THEN [ t EXCEPT !.ticks = t.ticks + 1 ]
    ELSE t

\* animate_drawer that keeps ticking after the Drawer is fully open.
animate_drawer_no_drop(t) ==
    /\ pc = "dispatch"
    /\ BagIn(t, timers)
    /\ drawer_offset' = Stepped(drawer_offset, drawer_opening)
    /\ IF drawer_offset' <= 0
       THEN /\ Hide
            /\ timers' = timers (-) SetToBag({ t })
            /\ calls' = [ NoCalls EXCEPT !.hides = 1,
                                         !.gpu_ops = IF gpu' # gpu THEN 1 ELSE 0 ]
       ELSE /\ timers' = (timers (-) SetToBag({ t })) (+) SetToBag({ Ticked(t) })
            /\ calls' = [ NoCalls EXCEPT !.drawer_frames = 1 ]
            /\ UNCHANGED << mapped, gpu >>
    /\ UNCHANGED << active_touch, drawer_opening, terminated, pc, until_next_frame,
                    other_vars >>

\* animate_drawer, run for the pending timer t.
animate_drawer(t) ==
    /\ pc = "dispatch"
    /\ BagIn(t, timers)
    /\ drawer_offset' = Stepped(drawer_offset, drawer_opening)
    /\ IF drawer_offset' <= 0
       THEN /\ Hide
            /\ timers' = timers (-) SetToBag({ t })
            /\ calls' = [ NoCalls EXCEPT !.hides = 1,
                                         !.gpu_ops = IF gpu' # gpu THEN 1 ELSE 0 ]
       ELSE IF drawer_offset' >= max_offset
       THEN /\ timers' = timers (-) SetToBag({ t })
            /\ calls' = [ NoCalls EXCEPT !.drawer_frames = 1 ]
            /\ UNCHANGED << mapped, gpu >>
       ELSE /\ timers' = (timers (-) SetToBag({ t })) (+) SetToBag({ Ticked(t) })
            /\ calls' = [ NoCalls EXCEPT !.drawer_frames = 1 ]
            /\ UNCHANGED << mapped, gpu >>
    /\ UNCHANGED << active_touch, drawer_opening, terminated, pc, until_next_frame,
                    other_vars >>

\* The event loop runs the callback of a pending animation timer.
timer_fired == \E t \in BagToSet(timers) : animate_drawer(t)

\* ------------------------------------------------ compositor and layer
\* frame that treats a failed draw as fatal.
frame_fatal(surface, draw_ok) ==
    /\ pc = "dispatch"
    /\ IF PanelOwnsSurface(surface) \/ DrawerOwnsSurface(surface)
       THEN /\ calls' = [ NoCalls EXCEPT !.draws = 1, !.ok = draw_ok ]
            /\ terminated' = (terminated \/ ~draw_ok)
       ELSE /\ calls' = NoCalls
            /\ UNCHANGED terminated
    /\ UNCHANGED << active_touch, drawer_opening, drawer_offset, mapped, gpu,
                    timers, pc, until_next_frame,
                    other_vars >>

\* CompositorHandler::frame; draw_ok is the outcome of the draw call.
frame(surface, draw_ok) ==
    /\ pc = "dispatch"
    /\ IF PanelOwnsSurface(surface) \/ DrawerOwnsSurface(surface)
       THEN calls' = [ NoCalls EXCEPT !.draws = 1, !.ok = draw_ok ]
       ELSE calls' = NoCalls
    /\ UNCHANGED << active_touch, drawer_opening, drawer_offset, terminated,
                    mapped, gpu, timers, pc, until_next_frame,
                    other_vars >>

\* LayerHandler::closed; the layer surface is the Panel's or the mapped
\* Drawer's.
closed(layer) ==
    /\ pc = "dispatch"
    /\ PanelOwnsSurface(layer) \/ DrawerOwnsSurface(layer)
    /\ terminated' = TRUE
    /\ calls' = [ NoCalls EXCEPT !.closed = layer ]
    /\ UNCHANGED << active_touch, drawer_opening, drawer_offset, mapped, gpu,
                    timers, pc, until_next_frame,
                    other_vars >>

\* -------------------------------------------------------------- main loop
\* while !state.terminated
LoopCheck ==
    /\ pc = "check"
    /\ pc' = IF terminated THEN "exited" ELSE "dispatch"
    /\ calls' = NoCalls
    /\ UNCHANGED << active_touch, drawer_opening, drawer_offset, terminated,
                    mapped, gpu, timers, until_next_frame,
                    other_vars >>

\* Instant::now() advances towards next_frame
\* (next_frame.saturating_duration_since(now) shrinks, never below zero).
time_passes ==
    /\ pc # "exited"
    /\ until_next_frame > 0
    /\ until_next_frame' = until_next_frame - 1
    /\ UNCHANGED << active_touch, drawer_opening, drawer_offset, terminated,
                    mapped, gpu, timers, pc, calls, other_vars >>

\* The end of an iteration whose forced refresh forgets the Panel.
LoopRefresh_drawer_only ==
    /\ pc = "dispatch"
    /\ pc' = "check"
    /\ IF until_next_frame = 0
       THEN /\ until_next_frame' = FRAME_INTERVAL
            /\ calls' = [ NoCalls EXCEPT !.drawer_frames = 1 ]
       ELSE /\ calls' = NoCalls
            /\ UNCHANGED until_next_frame
    /\ UNCHANGED << active_touch, drawer_opening, drawer_offset, terminated,
                    mapped, gpu, timers, other_vars >>

\* event_loop.dispatch returns, then the forced refresh when now >= next_frame.
LoopRefresh ==
    /\ pc = "dispatch"
    /\ pc' = "check"
    /\ IF until_next_frame = 0
       THEN /\ until_next_frame' = FRAME_INTERVAL
            /\ calls' = [ NoCalls EXCEPT !.drawer_frames = 1,
                                         !.panel_frames = 1 ]
       ELSE /\ calls' = NoCalls
            /\ UNCHANGED until_next_frame
    /\ UNCHANGED << active_touch, drawer_opening, drawer_offset, terminated,
                    mapped, gpu, timers, other_vars >>

\* ------------------------------------------------------------ SeatHandler
\* SeatHandler::new_capability: the seat gained the capability; get_ok is
\* the outcome of SeatState::get_touch.
new_capability(seat, capability, get_ok) ==
    /\ pc = "dispatch"
    /\ capability \notin seat_caps[seat]
    /\ seat_caps' = [ seat_caps EXCEPT ![seat] = @ \cup { capability } ]
    /\ IF capability = "Touch" /\ touch = None /\ get_ok
       THEN /\ touch' = Some(seat)
            /\ live_handles' = live_handles + 1
       ELSE UNCHANGED << touch, live_handles >>
    /\ calls' = NoCalls
    /\ UNCHANGED << active_touch, drawer_opening, drawer_offset, terminated,
                    mapped, gpu, timers, pc, until_next_frame, counting,
                    slider_vars >>

\* SeatHandler::remove_capability: the seat lost the capability.
remove_capability(seat, capability) ==
    /\ pc = "dispatch"
    /\ capability \in seat_caps[seat]
    /\ seat_caps' = [ seat_caps EXCEPT ![seat] = @ \ { capability } ]
    /\ IF capability # "Touch" /\ touch # None
       THEN /\ touch' = None
            /\ live_handles' = live_handles - 1
       ELSE UNCHANGED << touch, live_handles >>
    /\ calls' = NoCalls
    /\ UNCHANGED << active_touch, drawer_opening, drawer_offset, terminated,
                    mapped, gpu, timers, pc, until_next_frame, counting,
                    slider_vars >>

\* The seats change their capabilities while the loop runs.
NextSeat ==
    \/ \E seat \in Seats, capability \in Capabilities, get_ok \in BOOLEAN :
           new_capability(seat, capability, get_ok)
    \/ \E seat \in Seats, capability \in Capabilities :
           remove_capability(seat, capability)
    \/ \E l \in { "panel", "drawer" } : closed(l)
    \/ LoopCheck
    \/ time_passes
    \/ LoopRefresh

\* ------------------------------------------------- module/brightness.rs
\* f64::clamp
clamp(value, min, max) ==
    IF value < min THEN min ELSE IF value > max THEN max ELSE value

\* ((max_brightness as f64 * brightness) as u32).max(1): the cast truncates.
Target(max_brightness, b) ==
    LET truncated == (max_brightness * b) \div FULL
    IN  IF truncated < 1 THEN 1 ELSE truncated

\* set_value that gives up at the first failing write.
set_value_strict(value, enum_ok, writable) ==
    LET b == clamp(value, 0, FULL)
        with_max == { d \in DOMAIN devices : devices[d].max # None }
        done == enum_ok /\ with_max \subseteq writable
    IN  /\ devices' = [ d \in DOMAIN devices |->
                          IF done /\ d \in with_max
                          THEN [ devices[d] EXCEPT
                                   !.value = Target(Unwrap(devices[d].max), b) ]
                          ELSE devices[d] ]
        /\ brightness' = IF done THEN b ELSE brightness
        /\ last_set' = [ value |-> value,
                         result |-> IF done THEN "Ok" ELSE "Err" ]
        /\ UNCHANGED << main_vars, counting, seat_vars >>

\* Slider::set_value; enum_ok: the udev enumeration succeeded; writable: the
\* devices whose brightness attribute can be written.
set_value(value, enum_ok, writable) ==
    LET b == clamp(value, 0, FULL)
    IN  /\ IF enum_ok
           THEN /\ last_set' = [ value |-> value, result |-> "Ok" ]
                /\ brightness' = b
                /\ devices' =
                      [ d \in DOMAIN devices |->
                          IF devices[d].max # None /\ d \in writable
                          THEN [ devices[d] EXCEPT
                                   !.value = Target(Unwrap(devices[d].max), b) ]
                          ELSE devices[d] ]
           ELSE /\ last_set' = [ value |-> value, result |-> "Err" ]
                /\ UNCHANGED << brightness, devices >>
        /\ UNCHANGED << main_vars, counting, seat_vars >>

\* Slider::get_value
get_value == brightness

\* The slider is dragged: set_value over every value and every outcome of
\* the backlight access.
NextBrightness ==
    \E value \in SliderValues, enum_ok \in BOOLEAN,
       writable \in SUBSET (1..MaxDevices) :
        set_value(value, enum_ok, writable)

\* The results Drawer::show can have in down on this surface: it is called
\* on the Panel with no session active only, and has nothing to do (Ok) when
\* the Drawer is mapped.
ShowOutcomes(surface) ==
    IF active_touch = None /\ PanelOwnsSurface(surface) /\ ~mapped
    THEN BOOLEAN
    ELSE { TRUE }

\* The results draw can have in frame for this surface: nothing is drawn for
\* a surface neither window owns.
DrawOutcomes(surface) ==
    IF PanelOwnsSurface(surface) \/ DrawerOwnsSurface(surface)
    THEN BOOLEAN
    ELSE { TRUE }

\* The compositor delivers a touch-down.
TouchDown ==
    \E s \in Surfaces, id \in TouchIds, y \in TouchYs :
        \E ok \in ShowOutcomes(s) : down(s, id, y, ok)

\* The compositor delivers a frame callback.
FrameCallback ==
    \E s \in Surfaces : \E ok \in DrawOutcomes(s) : frame(s, ok)

Next ==
    \/ TouchDown
    \/ \E id \in TouchIds : up(id)
    \/ \E id \in TouchIds, y \in TouchYs : motion(id, y)
    \/ cancel
    \/ timer_fired
    \/ FrameCallback
    \/ \E l \in { "panel", "drawer" } : closed(l)
    \/ LoopCheck
    \/ time_passes
    \/ LoopRefresh

\* Every behaviour of the program; the timers carry no tick counts.
Spec == Init /\ [][Next]_vars

\* The same behaviours, each timer counting its ticks.
SpecTicks == InitTicks /\ [][Next]_vars

\* The seat handlers and the main loop.
SpecSeat == Init /\ [][NextSeat]_vars

\* The brightness slider alone.
SpecBrightness == InitBrightness /\ [][NextBrightness]_vars

\* The behaviours in which the loop keeps running: dispatch is called with
\* the time left until next_frame as its timeout, so it returns, and the
\* loop condition is evaluated after each iteration.
SpecLoop == Init /\ [][Next]_vars /\ WF_vars(LoopCheck) /\ WF_vars(LoopRefresh)

\* ------------------------------------------------------------------ C1
\* Some touch-down handler runs in this step.
AnyDown ==
    \E s \in Surfaces, id \in TouchIds, y \in TouchYs, ok \in BOOLEAN :
        down(s, id, y, ok)

\* C1: at most one touch session exists, and a touch-down delivered while a
\* session is active leaves active_touch, drawer_offset and drawer_opening
\* unchanged.
C1_SingleTouchPolicy ==
    [][ /\ Cardinality(active_touch') <= 1
        /\ (active_touch # None /\ AnyDown) =>
               UNCHANGED << active_touch, drawer_offset, drawer_opening >>
      ]_vars

\* ------------------------------------------------------------------ C2
\* C2: no reachable state has both an active touch session and a pending
\* animate_drawer timer (a new session cancels the pending tick).
C2_NoTickDuringSession ==
    ~(active_touch # None /\ timers # EmptyBag)

\* ------------------------------------------------------------------ C3
\* C3: at most one animate_drawer timer is pending at any time; a timer
\* comes to exist only by a touch-up for the tracked id and ceases to exist
\* only by its own terminal tick.
C3_AtMostOneAnimation ==
    /\ [](BagCardinality(timers) <= 1)
    /\ [][ /\ BagCardinality(timers') > BagCardinality(timers) =>
                 \E id \in TouchIds : active_touch = Some(id) /\ up(id)
           /\ BagCardinality(timers') < BagCardinality(timers) =>
                 /\ timer_fired
                 /\ (drawer_offset' <= 0 \/ drawer_offset' >= max_offset)
         ]_vars

\* ------------------------------------------------------------------ C4
\* C4: after any animation tick drawer_offset lies in [0, max_offset].
C4_OffsetInRangeAfterTick ==
    [][ timer_fired => (0 <= drawer_offset' /\ drawer_offset' <= max_offset) ]_vars

\* ------------------------------------------------------------------ C5
\* C5: GPU context attach and detach on the Drawer strictly alternate,
\* starting with an attach: never two attaches or two detaches in a row, and
\* the context is attached exactly while the Drawer is mapped.
C5_AttachDetachAlternate ==
    /\ gpu.last = "attach" => gpu.prev \in { "none", "detach" }
    /\ gpu.last = "detach" => gpu.prev = "attach"
    /\ mapped <=> gpu.last = "attach"

\* A show was issued while the Drawer was already mapped (it succeeded and
\* attached nothing).
C5_ShowWhileMapped ==
    calls.shows = 1 /\ calls.ok /\ calls.gpu_ops = 0 /\ mapped

\* ------------------------------------------------------------------ C6
\* The offset is strictly between closed and fully open.
Intermediate == 0 < drawer_offset /\ drawer_offset < max_offset

\* No touch session is active and no animation tick is pending.
Idle == active_touch = None /\ timers = EmptyBag

C7_BoundedTicks ==
    \A t \in BagToSet(timers) : t.clean => t.ticks < CeilTicks

\* ------------------------------------------------------------------ C8
\* C8: the terminal tick of an Opening animation started at or above
\* 0.75 * max_offset ends at or above max_offset without hiding the Drawer;
\* the terminal tick of a Closing animation started at or below
\* 0.25 * max_offset ends at or below 0 and hides the Drawer.
C8_SnapCorrectness ==
    [][ \A t \in BagToSet(timers) :
          (animate_drawer(t) /\ BagCardinality(timers') < BagCardinality(timers))
          => /\ t.snap = "open" =>
                    (drawer_offset' >= max_offset /\ calls'.hides = 0)
             /\ t.snap = "closed" =>
                    (drawer_offset' <= 0 /\ calls'.hides = 1)
      ]_vars

\* ------------------------------------------------------------------ C9
\* C9: terminated becomes true only by a closed event for the Panel's layer
\* surface, never becomes false again, and once it is true the loop exits at
\* its next condition check, entering no further dispatch.
C9_TerminatesOnPanelClosed ==
    [][ /\ (~terminated /\ terminated') => calls'.closed = "panel"
        /\ terminated => terminated'
        /\ (pc = "check" /\ terminated) => pc' = "exited"
        /\ (pc # "dispatch" /\ pc' = "dispatch") => ~terminated
      ]_vars

\* ----------------------------------------------------------------- C10
\* Some frame callback for a surface one of the windows owns runs in this
\* step.
OwnedFrame ==
    \E s \in Surfaces, ok \in BOOLEAN :
        (PanelOwnsSurface(s) \/ DrawerOwnsSurface(s)) /\ frame(s, ok)

\* C10: a handler run whose draw call failed made that one draw call only
\* and left terminated, drawer_offset, active_touch, drawer_opening and the
\* loop position unchanged; a frame callback that follows a failed draw
\* draws again.
C10_DrawFailureRecoverable ==
    [][ /\ (calls'.draws >= 1 /\ ~calls'.ok) =>
              /\ calls'.draws = 1
              /\ UNCHANGED << terminated, drawer_offset, active_touch,
                              drawer_opening, pc >>
        /\ (calls.draws >= 1 /\ ~calls.ok /\ OwnedFrame) => calls'.draws = 1
      ]_vars

\* A draw failed in the middle of a drag and the loop goes on.
C10_FailedDrawDuringDrag ==
    /\ calls.draws = 1 /\ ~calls.ok
    /\ active_touch # None /\ ~terminated /\ pc = "dispatch"

\* ----------------------------------------------------------------- C11
\* The forced refresh requested a frame on both windows in this step.
RefreshedBoth == calls.drawer_frames = 1 /\ calls.panel_frames = 1

\* C11: a loop iteration that finds the frame deadline reached requests a
\* frame on both the Drawer and the Panel in that iteration and moves the
\* deadline to now + FRAME_INTERVAL; nothing else moves the deadline later;
\* and while the loop runs, a reached deadline is eventually followed by a
\* refresh of both windows.
C11_ForcedRefresh ==
    /\ [][ ((LoopRefresh /\ until_next_frame = 0)
               => (RefreshedBoth' /\ until_next_frame' = FRAME_INTERVAL))
           /\ ((until_next_frame' > until_next_frame)
               => (LoopRefresh /\ until_next_frame = 0)) ]_vars
    /\ (until_next_frame = 0 /\ pc # "exited")
           ~> ((RefreshedBoth /\ until_next_frame = FRAME_INTERVAL)
                  \/ pc = "exited")

\* A refresh of both windows has just moved the deadline.
C11_RefreshDone ==
    /\ RefreshedBoth
    /\ until_next_frame = FRAME_INTERVAL
    /\ pc = "check"

\* ----------------------------------------------------------------- C12
\* v clamped to [0, 1]
Clamped(v) == IF v <= 0 THEN 0 ELSE IF v >= FULL THEN FULL ELSE v

\* C12 as claimed: after any set_value(v), get_value() is v clamped to
\* [0, 1], whether or not the backlight access or the write succeeded.
C12_ValueAlwaysStored ==
    last_set.result # "none" => get_value = Clamped(last_set.value)

\* C12 as amended: a set_value(v) whose device enumeration succeeds returns
\* Ok and leaves get_value() at v clamped to [0, 1], whichever devices lack
\* a parsable max_brightness or fail their write: those keep their
\* brightness, the others get max(1, trunc(max_brightness * clamped v)).
\* A set_value whose enumeration fails returns Err and changes neither
\* get_value() nor any device.
C12_BestEffortSet ==
    [][ \A value \in SliderValues, enum_ok \in BOOLEAN,
           writable \in SUBSET (1..MaxDevices) :
          set_value(value, enum_ok, writable) =>
            /\ (last_set'.result = "Ok") <=> enum_ok
            /\ enum_ok => /\ get_value' = Clamped(value)
                          /\ \A d \in DOMAIN devices :
                                IF devices[d].max # None /\ d \in writable
                                THEN /\ devices'[d].value >= 1
                                     /\ devices'[d].value * FULL
                                           <= Unwrap(devices[d].max) * get_value'
                                        \/ devices'[d].value = 1
                                     /\ (devices'[d].value + 1) * FULL
                                           > Unwrap(devices[d].max) * get_value'
                                ELSE devices'[d] = devices[d]
            /\ ~enum_ok => UNCHANGED << brightness, devices >>
      ]_vars

\* A set_value above 1.0 returned Ok although one device with a
\* max_brightness kept its old brightness and another has no max_brightness.
C12_SetDespiteFailedWrite ==
    /\ last_set.result = "Ok"
    /\ last_set.value > FULL
    /\ get_value = FULL
    /\ \E d \in DOMAIN devices :
          devices[d].max # None /\ devices[d].value # Unwrap(devices[d].max)
    /\ \E d \in DOMAIN devices : devices[d].max = None

\* ----------------------------------------------------------------- C13
\* The touch position is in the Drawer's bottom handle region.
InHandleRegion(y) == y * 100 >= max_offset * DRAWER_CLOSE_PERCENTAGE

\* C13: a touch-down with no session active, on the Panel, issues a drawer
\* show so that the Drawer is mapped, sets drawer_offset = y, tracks the id
\* and sets direction Opening; on the mapped Drawer at y >= 0.95 *
\* max_offset it sets drawer_offset = y, tracks the id and sets direction
\* Closing without a show; anywhere else it changes no state.
C13_DownClassification ==
    [][ \A s \in Surfaces, id \in TouchIds, y \in TouchYs, ok \in BOOLEAN :
          (active_touch = None /\ down(s, id, y, ok)) =>
            IF s = "panel"
            THEN /\ calls'.shows = 1
                 /\ mapped'
                 /\ drawer_offset' = y
                 /\ active_touch' = Some(id)
                 /\ drawer_opening'
            ELSE IF s = "drawer" /\ mapped /\ InHandleRegion(y)
            THEN /\ calls'.shows = 0
                 /\ drawer_offset' = y
                 /\ active_touch' = Some(id)
                 /\ ~drawer_opening'
                 /\ UNCHANGED << mapped, gpu >>
            ELSE /\ calls' = NoCalls
                 /\ UNCHANGED << active_touch, drawer_offset, drawer_opening,
                                 terminated, mapped, gpu, timers >>
      ]_vars

\* ----------------------------------------------------------------- C14
\* C14: the threshold test at the start of an animation decides its end and
\* never flips: an animation that starts at or above the threshold (0.25 *
\* max_offset when Opening, 0.75 * max_offset when Closing) moves by +20 on
\* every tick and ends fully open without hiding the Drawer; one that
\* starts below it moves by -20 on every tick and ends at offset <= 0,
\* hiding the Drawer.
C14_DecidedAtStart ==
    [][ \A t \in BagToSet(timers) :
          animate_drawer(t) =>
            /\ drawer_offset' = IF t.rising
                                THEN drawer_offset + ANIMATION_STEP
                                ELSE drawer_offset - ANIMATION_STEP
            /\ BagCardinality(timers') < BagCardinality(timers) =>
                  IF t.rising
                  THEN drawer_offset' >= max_offset /\ calls'.hides = 0
                  ELSE drawer_offset' <= 0 /\ calls'.hides = 1
      ]_vars

\* ----------------------------------------------------------------- C15
\* C15: after its step, a tick with offset <= 0 hides the Drawer and is not
\* rescheduled; a tick with offset >= max_offset requests exactly one drawer
\* frame, does not touch the Drawer's mapping and is not rescheduled; any
\* other tick requests a drawer frame and is rescheduled once.  Nothing but
\* a tick's own return value removes a pending tick.
C15_TickOutcome ==
    [][ /\ \A t \in BagToSet(timers) :
             animate_drawer(t) =>
               IF drawer_offset' <= 0
               THEN /\ calls'.hides = 1 /\ calls'.drawer_frames = 0
                    /\ ~mapped'
                    /\ timers' = timers (-) SetToBag({ t })
               ELSE IF drawer_offset' >= max_offset
               THEN /\ calls'.hides = 0 /\ calls'.drawer_frames = 1
                    /\ UNCHANGED mapped
                    /\ timers' = timers (-) SetToBag({ t })
               ELSE /\ calls'.hides = 0 /\ calls'.drawer_frames = 1
                    /\ UNCHANGED mapped
                    /\ BagCardinality(timers') = BagCardinality(timers)
                    /\ \E n \in BagToSet(timers') :
                          timers' (-) SetToBag({ n }) = timers (-) SetToBag({ t })
        /\ BagCardinality(timers') < BagCardinality(timers) =>
              /\ timer_fired
              /\ drawer_offset' <= 0 \/ drawer_offset' >= max_offset
      ]_vars

\* A tick reached max_offset: one drawer frame, the Drawer still mapped and
\* no tick pending.
C15_FinalFrame ==
    /\ drawer_offset >= max_offset
    /\ calls.drawer_frames = 1 /\ calls.hides = 0 /\ calls.panel_frames = 0
    /\ active_touch = None
    /\ timers = EmptyBag
    /\ mapped

C17_MoveTracksFinger ==
    [][ \A id \in TouchIds :
          IF active_touch = Some(id)
          THEN \A y \in TouchYs :
                 motion(id, y) =>
                   /\ drawer_offset' = y
                   /\ calls'.drawer_frames = 1
                   /\ UNCHANGED << active_touch, drawer_opening, mapped, gpu,
                                   terminated >>
                   /\ BagCardinality(timers') = BagCardinality(timers)
          ELSE (\E y \in TouchYs : motion(id, y)) =>
                   /\ calls' = NoCalls
                   /\ UNCHANGED << active_touch, timers, drawer_offset,
                                   drawer_opening, mapped, gpu, terminated >>
      ]_vars

\* The tracked touch moved to an eighth of the way down: the offset follows
\* and one drawer frame is requested.
C17_Dragged ==
    /\ active_touch # None
    /\ drawer_offset = MaxOffset \div 8
    /\ calls.drawer_frames = 1 /\ calls.panel_frames = 0
    /\ timers = EmptyBag /\ mapped

\* ----------------------------------------------------------------- C18
\* C18: a touch cancel changes nothing (the session stays active with the
\* same tracked id, no tick is scheduled, the Drawer keeps its mapping and
\* offset), and an active session ends, or comes to track another id, only
\* by a touch-up for the tracked id.
C18_CancelChangesNothing ==
    [][ /\ cancel =>
              UNCHANGED << active_touch, drawer_opening, drawer_offset,
                           terminated, mapped, gpu, timers >>
        /\ (active_touch # None /\ active_touch' # active_touch) =>
              \E id \in TouchIds : active_touch = Some(id) /\ up(id)
      ]_vars

\* ----------------------------------------------------------------- C19
\* C19: whenever a touch session is active the Drawer is mapped.
C19_SessionImpliesMapped == active_touch # None => mapped

\* ----------------------------------------------------------------- C20
\* C20: the stored touch handle is released and cleared exactly when the
\* Touch capability of its seat is removed (the removal of any other
\* capability leaves it in place); it is acquired only when a Touch
\* capability appears while no handle is held; at most one handle is held.
C20_HandleFollowsTouchCapability ==
    [][ /\ \A seat \in Seats, capability \in Capabilities :
             (touch # None /\ remove_capability(seat, capability)) =>
               IF capability = "Touch" /\ touch = Some(seat)
               THEN touch' = None /\ live_handles' = live_handles - 1
               ELSE UNCHANGED << touch, live_handles >>
        /\ (touch' # touch /\ touch' # None) =>
              /\ touch = None
              /\ \E seat \in Seats : new_capability(seat, "Touch", TRUE)
        /\ (touch' # touch /\ touch' = None) =>
              \E seat \in Seats, capability \in Capabilities :
                  remove_capability(seat, capability)
        /\ live_handles' <= 1
      ]_vars
====
